---- MODULE Spec2Model ----
(***************************************************************************)
(* Model of veusz/windows/mainwindow.py: the document-load pipeline of     *)
(* MainWindow (openFile, CreateWindow, openFileInWindow and the wrapper    *)
(* _unsafeCaller it builds around the unsafe commands).                    *)
(*                                                                         *)
(* All code runs on the GUI thread.  A modal prompt (QMessageBox.exec_)    *)
(* runs a nested event loop, so a load is a stack frame: only the frame    *)
(* on top of the stack runs, and a new load can be dispatched only when    *)
(* no load is running or the running one is blocked in a prompt.           *)
(*                                                                         *)
(* Spec is the load pipeline with what a completed load sets (file name,   *)
(* working directories, recent files).  RecentSpec is addRecentFile on its *)
(* own, CloseSpec is closeEvent, FairSpec is Spec with every enabled step  *)
(* eventually taken.                                                       *)
(***************************************************************************)
EXTENDS Integers, Sequences, FiniteSets, TLC

\* ---- bounds -------------------------------------------------------------
NumWindows == 2        \* MainWindow objects that can be constructed
MaxCmds == 2           \* command invocations a script makes in one load
MaxLoads == 2          \* loads started in one behaviour
NumPaths == 11         \* base names of the files that can be named

\* recent[:10] in addRecentFile
RecentLimit == 10

Windows == 1..NumWindows

\* ---- values -------------------------------------------------------------
\* sys.stdout / sys.stderr of the process before any load, and the console
\* sinks of window w (self.console.con_stdout, self.console.con_stderr)
ProcStdout == <<"stdout", 0>>
ProcStderr == <<"stderr", 0>>
con_stdout(w) == <<"con_stdout", w>>
con_stderr(w) == <<"con_stderr", w>>
NoStream == <<"none", 0>>

\* a script as read from the file: whether it holds a construct the secure
\* policy rejects, and whether it has an error that is no security violation
\* ("parse": found before the security check, "codegen": found after it)
Scripts == [violation : BOOLEAN, error : {"none", "parse", "codegen"}]
NoScript == [violation |-> FALSE, error |-> "none"]

\* the value compileChecked returns: n is the ordinal of the compileChecked
\* call of this load that produced it (0: no compiled unit)
NoUnit == [ignoresecurity |-> FALSE, n |-> 0]

\* ---- file names ------------------------------------------------------------
\* a file name as given to the program: the directory part ("." when the
\* name is relative) and the base name
Cwd == "/cwd"
Home == "/home"
FileNames == [dir : {".", Cwd}, base : 1..NumPaths]

\* self.filename = ''
NoFileName == [dir |-> "", base |-> 0]

\* os.path.abspath: a relative name is resolved against the working directory
abspath(n) == IF n.dir = "." THEN [n EXCEPT !.dir = Cwd] ELSE n

\* os.path.dirname
dirnameOf(n) == n.dir

\* the file name given to the k-th load of a behaviour: every load is given
\* a different file, relative names and absolute ones in turn
FileArg(k) == [dir |-> IF k % 2 = 1 THEN "." ELSE Cwd, base |-> k]

\* the window geometries and dock states a window can have when it closes
Geometries == {<<0, 0, 800, 600>>, <<10, 20, 640, 480>>}
DockStates == {"docked", "floating"}

\* ---- the settings database (setting.settingdb) ----------------------------
Range(s) == {s[i] : i \in 1..Len(s)}
Min(a, b) == IF a <= b THEN a ELSE b

\* del recent[recent.index(filename)]
RECURSIVE delFirst(_, _)
delFirst(s, x) ==
    IF s = <<>> THEN <<>>
    ELSE IF s[1] = x THEN SubSeq(s, 2, Len(s))
    ELSE <<s[1]>> \o delFirst(SubSeq(s, 2, Len(s)), x)

\* slip: the file is inserted without removing its earlier entry
addRecentFile_nodel(recent, filename) ==
    LET ins == <<abspath(filename)>> \o recent
    IN SubSeq(ins, 1, Min(Len(ins), RecentLimit))

\* addRecentFile: the new value of setdb['main_recentfiles']
addRecentFile(recent, filename) ==
    LET f == abspath(filename)
        r == IF f \in Range(recent) THEN delFirst(recent, f) ELSE recent
        ins == <<f>> \o r
    IN SubSeq(ins, 1, Min(Len(ins), RecentLimit))

\* the settings a fresh installation starts with
NoGeometry == <<>>
InitialSetdb ==
    [main_recentfiles |-> <<>>, dirname |-> Home, dirname_export |-> Home,
     dirname_usecwd |-> FALSE, geometry_mainwindow |-> NoGeometry,
     geometry_mainwindowstate |-> ""]

\* ---- the document (collaborator document.Document) ------------------------
\* document.Document(): an empty document
NewDocument ==
    [content |-> <<>>, modified |-> FALSE, history |-> 0,
     suspended |-> FALSE, changeset |-> 0]

\* "add page and default graph"; the document then counts as unchanged
makeDefaultDoc(d) ==
    [d EXCEPT !.content = d.content \o <<"page", "graph">>,
              !.modified = FALSE, !.changeset = 0]

wipe(d) == [d EXCEPT !.content = <<>>]
suspendUpdates(d) == [d EXCEPT !.suspended = TRUE]
enableUpdates(d) == [d EXCEPT !.suspended = FALSE]
setModified(d, m) ==
    [d EXCEPT !.modified = m,
              !.changeset = IF m THEN d.changeset + 1 ELSE d.changeset]
clearHistory(d) == [d EXCEPT !.history = 0]
isBlank(d) == d.changeset = 0

\* a command of interface.safe_commands applied to the document
applyCommand(d) ==
    setModified([d EXCEPT !.content = d.content \o <<"cmd">>,
                          !.history = d.history + 1], TRUE)

\* setupDefaultDoc with no default stylesheet or custom definitions set
setupDefaultDoc(d) == makeDefaultDoc(d)

\* ---- utils.compileChecked -------------------------------------------------
compileChecked(script, ignoresecurity) ==
    IF script.error = "parse" THEN "error"
    ELSE IF script.violation /\ ~ignoresecurity THEN "violation"
    ELSE IF script.error = "codegen" THEN "error"
    ELSE "ok"

\* ---- state ----------------------------------------------------------------
VARIABLES
    nwin,          \* number of MainWindow objects constructed
    doc,           \* doc[w]: self.document of window w
    unsafe_mode,   \* setting.transient_settings['unsafe_mode']
    sys_stdout,    \* sys.stdout
    sys_stderr,    \* sys.stderr
    stack,         \* windows whose openFileInWindow is active, innermost last
    frame,         \* frame[w]: the locals of the activation of window w
    hist,          \* hist[w]: what the load of w has done so far
    nloads,        \* loads started so far
    granted,       \* a prompt of some load has been answered "continue"
    filename,      \* filename[w]: self.filename of window w
    dirname,       \* dirname[w]: self.dirname of window w
    dirname_export, \* dirname_export[w]: self.dirname_export of window w
    setdb,         \* setting.settingdb
    written,       \* the settings as setdb.writeSettings() last wrote them
    close          \* close[w]: the closeEvent of window w and what it did

vars == <<nwin, doc, unsafe_mode, sys_stdout, sys_stderr, stack, frame,
          hist, nloads, granted, filename, dirname, dirname_export, setdb,
          written, close>>

\* the state of the load pipeline, of the windows' attributes, of closing
loadVars == <<unsafe_mode, sys_stdout, sys_stderr, stack, frame, hist,
              nloads, granted>>
closeVars == <<written, close>>
shellVars == <<filename, dirname, dirname_export, setdb, written, close>>

IdleFrame ==
    [pc |-> "idle", filename |-> NoFileName, script |-> NoScript,
     unsafe |-> FALSE,
     compiled |-> NoUnit, safenow |-> FALSE,
     stdout |-> NoStream, stderr |-> NoStream]

NoHist ==
    [outcome |-> "none", pre |-> NewDocument,
     pre_stdout |-> NoStream, pre_stderr |-> NoStream,
     end_stdout |-> NoStream, end_stderr |-> NoStream,
     compiles |-> <<>>, prompts |-> <<>>, trace |-> <<>>, performed |-> <<>>,
     executed |-> FALSE, unit |-> NoUnit, redirected |-> FALSE,
     wipes |-> 0, suspends |-> 0, errors |-> 0,
     pre_filename |-> NoFileName, pre_recent |-> <<>>, opened |-> 0]

\* closeEvent has not been delivered.  log: the calls closeEvent has made, in
\* order; pre_*, end_*: the document and the settings when it was delivered
\* and when it returned
NotClosing ==
    [pc |-> "idle", event |-> "none", answer |-> "none", log |-> <<>>,
     pre_doc |-> NewDocument, pre_setdb |-> InitialSetdb,
     pre_written |-> InitialSetdb, end_setdb |-> InitialSetdb,
     end_written |-> InitialSetdb]

\* the program has started: one window, which shows the default document
LoadInit ==
    /\ nwin = 1
    /\ doc = [w \in Windows |-> IF w = 1 THEN setupDefaultDoc(NewDocument)
                                        ELSE NewDocument]
    /\ unsafe_mode \in BOOLEAN
    /\ sys_stdout = ProcStdout
    /\ sys_stderr = ProcStderr
    /\ stack = <<>>
    /\ frame = [w \in Windows |-> IdleFrame]
    /\ hist = [w \in Windows |-> NoHist]
    /\ nloads = 0
    /\ granted = FALSE

\* the settings database is db, as read from the settings file; a window
\* takes its directories from it (__init__)
ShellInit(db) ==
    /\ filename = [w \in Windows |-> NoFileName]
    /\ setdb = db
    /\ dirname = [w \in Windows |-> db.dirname]
    /\ dirname_export = [w \in Windows |-> db.dirname_export]
    /\ written = db
    /\ close = [w \in Windows |-> NotClosing]

Init == LoadInit /\ ShellInit(InitialSetdb)

\* ---- the call stack ---------------------------------------------------------
Top == stack[Len(stack)]
Running(w) == IF stack = <<>> THEN FALSE ELSE Top = w
InStack(w) == \E i \in 1..Len(stack) : stack[i] = w
Pop == SubSeq(stack, 1, Len(stack) - 1)
InPrompt(w) == frame[w].pc \in {"prompt_script", "prompt_cmd"}

\* an event handler can be dispatched: no load runs, or the running one is
\* inside the event loop of a modal prompt (exec_).  The prompt is a child of
\* its window and blocks that window, so the handlers dispatched meanwhile
\* belong to other windows (openFile, openFileInWindow guard on InStack).
CanDispatch == IF stack = <<>> THEN TRUE ELSE InPrompt(Top)

\* the activations and the records of the loads in progress: what is kept
\* of a load that has ended is dropped at the next step of any load
frames == [v \in Windows |-> IF frame[v].pc = "idle" THEN IdleFrame ELSE frame[v]]
hists == [v \in Windows |-> IF frame[v].pc = "idle" THEN NoHist ELSE hist[v]]

\* ---- openFileInWindow -------------------------------------------------------
\* slip: the document is left alone when the file cannot be read
readFailedDoc_untouched(d) == d

\* the document after the handler of the read failure (setupDefaultDoc)
readFailedDoc(d) == setupDefaultDoc(d)

\* slip: the compile loop starts in secure mode whatever the setting is
initialUnsafe_off == FALSE

\* slip: consent given to an earlier load is remembered
initialUnsafe_sticky == unsafe_mode \/ granted

\* unsafe = setting.transient_settings['unsafe_mode']
initialUnsafe == unsafe_mode

\* entry of openFileInWindow on window w whose document is d: read the script
\* (readOk: the file could be read, scr: what it holds), then enter the
\* compile loop with unsafe = transient_settings['unsafe_mode']
openFileInWindow(w, d, readOk, scr) ==
    /\ nloads < MaxLoads
    /\ nloads' = nloads + 1
    /\ UNCHANGED <<unsafe_mode, sys_stdout, sys_stderr, granted>>
    /\ UNCHANGED shellVars
    /\ LET h0 == [NoHist EXCEPT !.pre = d, !.pre_stdout = sys_stdout,
                                !.pre_stderr = sys_stderr,
                                !.pre_filename = filename[w],
                                !.pre_recent = setdb.main_recentfiles]
       IN IF ~readOk
          THEN /\ doc' = [doc EXCEPT ![w] = readFailedDoc(d)]
               /\ hist' = [hists EXCEPT ![w] =
                             [h0 EXCEPT !.outcome = "readfail", !.errors = 1,
                                        !.end_stdout = sys_stdout',
                                        !.end_stderr = sys_stderr']]
               /\ frame' = [frames EXCEPT ![w] = IdleFrame]
               /\ stack' = stack
          ELSE /\ doc' = [doc EXCEPT ![w] = d]
               /\ hist' = [hists EXCEPT ![w] = h0]
               /\ frame' = [frames EXCEPT ![w] =
                              [IdleFrame EXCEPT !.pc = "compile",
                                                !.filename = FileArg(nloads'),
                                                !.script = scr,
                                                !.unsafe = initialUnsafe]]
               /\ stack' = Append(stack, w)

\* slip: the prompts do not block their window
blocked_never(w) == FALSE

\* the prompts of a load are modal children of its window (the parent given
\* to _unsafeCmdMsgBox and _unsafeVeuszCmdMsgBox, shown by exec_): while the
\* load of w is active no menu action or drop event of w is delivered
blocked(w) == InStack(w)

\* slip: the current window is reused whatever its document holds
reuseWindow_always(d) == TRUE

\* "if self.document.isBlank()" of openFile (and of dropEvent)
reuseWindow(d) == isBlank(d)

\* openFile on an existing window (also dropEvent for the first file
\* dropped): reuse it when its document is blank, otherwise
\* CreateWindow(filename)
openFile(w, readOk, scr) ==
    /\ CanDispatch
    /\ w <= nwin
    /\ ~blocked(w)
    /\ IF reuseWindow(doc[w])
       THEN /\ openFileInWindow(w, doc[w], readOk, scr)
            /\ nwin' = nwin
       ELSE /\ nwin < NumWindows
            /\ openFileInWindow(nwin + 1, NewDocument, readOk, scr)
            /\ nwin' = nwin + 1

\* MainWindow.CreateWindow(filename): a new window, whose document is the
\* empty Document() of __init__, loads the file
CreateWindow(readOk, scr) ==
    /\ CanDispatch
    /\ nwin < NumWindows
    /\ openFileInWindow(nwin + 1, NewDocument, readOk, scr)
    /\ nwin' = nwin + 1

\* the load of w ends: its activation leaves the stack
EndLoad(w, f) ==
    /\ frame' = [frames EXCEPT ![w] = [f EXCEPT !.pc = "idle"]]
    /\ stack' = Pop

\* slip: the document is cleared before the script is known to compile
compileFailedDoc_wiped(d) == wipe(d)

\* the document after "except Exception": errordialog(e), return
compileFailedDoc(d) == d

\* slip: every exception of compileChecked is taken for a security violation
compileHandler_asksAll(r) == IF r = "ok" THEN "break" ELSE "ask"

\* the clause of the try statement that handles the result of compileChecked
compileHandler(r) ==
    CASE r = "ok" -> "break"
      [] r = "violation" -> "ask"
      [] r = "error" -> "abort"

\* one iteration of the compile loop
Compile(w) ==
    /\ Running(w)
    /\ frame[w].pc = "compile"
    /\ UNCHANGED <<nwin, unsafe_mode, sys_stdout, sys_stderr, nloads,
                   granted>>
    /\ doc' = [doc EXCEPT ![w] =
                 IF compileHandler(compileChecked(frame[w].script,
                                                  frame[w].unsafe)) = "abort"
                 THEN compileFailedDoc(@) ELSE @]
    /\ UNCHANGED shellVars
    /\ LET f == frame[w]
           r == compileChecked(f.script, f.unsafe)
           n == Len(hist[w].compiles) + 1
           h == [hist[w] EXCEPT !.compiles =
                    Append(@, [ignoresecurity |-> f.unsafe, result |-> r])]
           c == compileHandler(r)
       IN CASE c = "break" ->
                 /\ frame' = [frames EXCEPT ![w] =
                       [f EXCEPT !.compiled =
                                    [ignoresecurity |-> f.unsafe, n |-> n],
                                 !.pc = "setup"]]
                 /\ hist' = [hists EXCEPT ![w] = h]
                 /\ stack' = stack
            [] c = "ask" ->
                 /\ frame' = [frames EXCEPT ![w] =
                                 [f EXCEPT !.pc = "prompt_script"]]
                 /\ hist' = [hists EXCEPT ![w] =
                               [h EXCEPT !.prompts = Append(@, "pending")]]
                 /\ stack' = stack
            [] c = "abort" ->
                 /\ EndLoad(w, f)
                 /\ hist' = [hists EXCEPT ![w] =
                               [h EXCEPT !.errors = @ + 1,
                                         !.outcome = "compileerror",
                                         !.end_stdout = sys_stdout',
                                         !.end_stderr = sys_stderr']]

\* slip: the answer of the whole-script prompt never stops the load
promptStops_ignored(ans) == FALSE

\* slip: the comparison is made with QMessageBox.Yes
promptStops_inverted(ans) == ans = "continue"

\* _unsafeCmdMsgBox(...).exec_() == QMessageBox.No: the load returns
promptStops(ans) == ans = "stop"

\* slip: the declined load resets the document as the read failure does
abortedDoc_reset(d) == setupDefaultDoc(d)

\* the document when the declined load returns: no call is made on it
abortedDoc(d) == d

\* slip: the accepted prompt does not relax the policy of the retry
unsafeAfterAccept_kept(f) == f.unsafe

\* unsafe = True
unsafeAfterAccept(f) == TRUE

\* slip: the accepted prompt switches the process-wide unsafe mode on
settingAfterAccept_on(m) == TRUE

\* the process-wide setting after an accepted prompt: only the local
\* variable unsafe is assigned
settingAfterAccept(m) == m

\* the user answers _unsafeCmdMsgBox: "stop" (No) or "continue" (Yes)
AnswerScriptPrompt(w, ans) ==
    /\ Running(w)
    /\ frame[w].pc = "prompt_script"
    /\ UNCHANGED <<nwin, sys_stdout, sys_stderr, nloads>>
    /\ UNCHANGED shellVars
    /\ LET f == frame[w]
           h == [hist[w] EXCEPT !.prompts[Len(hist[w].prompts)] = ans]
       IN IF promptStops(ans)
          THEN /\ EndLoad(w, f)
               /\ UNCHANGED <<unsafe_mode, granted>>
               /\ doc' = [doc EXCEPT ![w] = abortedDoc(doc[w])]
               /\ hist' = [hists EXCEPT ![w] =
                             [h EXCEPT !.outcome = "declined",
                                       !.end_stdout = sys_stdout',
                                       !.end_stderr = sys_stderr']]
          ELSE /\ frame' = [frames EXCEPT ![w] =
                              [f EXCEPT !.unsafe = unsafeAfterAccept(f),
                                        !.pc = "compile"]]
               /\ unsafe_mode' = settingAfterAccept(unsafe_mode)
               /\ granted' = TRUE
               /\ doc' = doc
               /\ hist' = [hists EXCEPT ![w] = h]
               /\ stack' = stack

\* slip: the flag starts false whatever unsafe is
startSafenow_false(f) == FALSE

\* slip: the flag starts true whatever unsafe is
startSafenow_true(f) == TRUE

\* safenow = [unsafe]
startSafenow(f) == f.unsafe

\* from the end of the compile loop to the call of cexec: build env, set
\* safenow, save and redirect the streams, wipe, suspendUpdates,
\* AddImportPath.  raises names the call that raises, if one does; the
\* exception then leaves openFileInWindow.
Setup(w, raises) ==
    /\ Running(w)
    /\ frame[w].pc = "setup"
    /\ LET f == [frame[w] EXCEPT !.safenow = startSafenow(frame[w]),
                                 !.stdout = sys_stdout,
                                 !.stderr = sys_stderr]
           d == doc[w]
           h == [hist[w] EXCEPT !.redirected = TRUE, !.wipes = @ + 1]
       IN /\ sys_stdout' = con_stdout(w)
          /\ sys_stderr' = con_stderr(w)
          /\ CASE raises = "wipe" ->
                    /\ doc' = doc
                    /\ hist' = [hists EXCEPT ![w] =
                                  [h EXCEPT !.outcome = "escaped",
                                            !.end_stdout = sys_stdout',
                                            !.end_stderr = sys_stderr']]
                    /\ EndLoad(w, f)
               [] raises = "suspendUpdates" ->
                    /\ doc' = [doc EXCEPT ![w] = wipe(d)]
                    /\ hist' = [hists EXCEPT ![w] =
                                  [h EXCEPT !.suspends = @ + 1,
                                            !.outcome = "escaped",
                                            !.end_stdout = sys_stdout',
                                            !.end_stderr = sys_stderr']]
                    /\ EndLoad(w, f)
               [] raises = "AddImportPath" ->
                    /\ doc' = [doc EXCEPT ![w] = suspendUpdates(wipe(d))]
                    /\ hist' = [hists EXCEPT ![w] =
                                  [h EXCEPT !.suspends = @ + 1,
                                            !.outcome = "escaped",
                                            !.end_stdout = sys_stdout',
                                            !.end_stderr = sys_stderr']]
                    /\ EndLoad(w, f)
               [] raises = "none" ->
                    /\ doc' = [doc EXCEPT ![w] = suspendUpdates(wipe(d))]
                    /\ hist' = [hists EXCEPT ![w] =
                                  [h EXCEPT !.suspends = @ + 1,
                                            !.executed = TRUE,
                                            !.unit = f.compiled]]
                    /\ frame' = [frames EXCEPT ![w] = [f EXCEPT !.pc = "exec"]]
                    /\ stack' = stack
    /\ UNCHANGED <<nwin, unsafe_mode, nloads, granted>>
    /\ UNCHANGED shellVars

\* ---- the running script -------------------------------------------------------
\* an entry of hist[w].trace: one command invocation made by the script
Called(c) ==
    [cmd |-> c, prompted |-> FALSE, answer |-> "none", performed |-> TRUE]
Asked(c) ==
    [cmd |-> c, prompted |-> TRUE, answer |-> "pending", performed |-> FALSE]

\* the effect of calling command c of the interface on the document: the
\* unsafe commands (saving, exporting, printing) leave the document alone
callCommand(c, d) == IF c = "safe" THEN applyCommand(d) ELSE d

\* slip: every command of the interface is wrapped
isWrapped_all(c) == TRUE

\* env[name] is _unsafeCaller(...) for the names of unsafe_commands only
isWrapped(c) == c = "unsafe"

\* slip: the prompt is shown whatever safenow[0] is
wrappedAsks_always(f) == TRUE

\* _unsafeCaller.wrapped: is the prompt shown for this invocation
wrappedAsks(f) == ~f.safenow

\* slip: safenow[0] is never set
wrappedTrust_unset(f) == f.safenow

\* _unsafeCaller.wrapped: the flag once the invocation goes ahead
wrappedTrust(f) == TRUE

\* slip: wrapped() does not return on "ignore"
cmdDeclined_never(ans) == FALSE

\* _unsafeVeuszCmdMsgBox(...).exec_() == QMessageBox.No: wrapped() returns
cmdDeclined(ans) == ans = "ignore"

\* the script invokes its next command, c: a safe command is called as it
\* is, an unsafe one through wrapped()
Invoke(w, c) ==
    /\ Running(w)
    /\ frame[w].pc = "exec"
    /\ Len(hist[w].trace) < MaxCmds
    /\ LET f == frame[w]
           h == hist[w]
           i == Len(h.trace) + 1
       IN IF isWrapped(c) /\ wrappedAsks(f)
          THEN /\ doc' = doc
               /\ hist' = [hists EXCEPT ![w] =
                             [h EXCEPT !.trace = Append(@, Asked(c))]]
               /\ frame' = [frames EXCEPT ![w] = [f EXCEPT !.pc = "prompt_cmd"]]
          ELSE /\ doc' = [doc EXCEPT ![w] = callCommand(c, doc[w])]
               /\ hist' = [hists EXCEPT ![w] =
                             [h EXCEPT !.trace = Append(@, Called(c)),
                                       !.performed = Append(@, i)]]
               /\ frame' = [frames EXCEPT ![w] =
                              [f EXCEPT !.safenow =
                                  IF isWrapped(c) THEN wrappedTrust(f)
                                                  ELSE f.safenow]]
    /\ UNCHANGED <<nwin, unsafe_mode, sys_stdout, sys_stderr, stack, nloads, granted>>
    /\ UNCHANGED shellVars

\* the user answers _unsafeVeuszCmdMsgBox: "ignore" (No) or "continue" (Yes)
AnswerCmdPrompt(w, ans) ==
    /\ Running(w)
    /\ frame[w].pc = "prompt_cmd"
    /\ LET f == frame[w]
           h == hist[w]
           i == Len(h.trace)
       IN IF cmdDeclined(ans)
          THEN /\ doc' = doc
               /\ hist' = [hists EXCEPT ![w] =
                             [h EXCEPT !.trace[i].answer = ans]]
               /\ frame' = [frames EXCEPT ![w] = [f EXCEPT !.pc = "exec"]]
          ELSE /\ doc' = [doc EXCEPT ![w] = callCommand(h.trace[i].cmd, doc[w])]
               /\ hist' = [hists EXCEPT ![w] =
                             [h EXCEPT !.trace[i].answer = ans,
                                       !.trace[i].performed = TRUE,
                                       !.performed = Append(@, i)]]
               /\ frame' = [frames EXCEPT ![w] =
                              [f EXCEPT !.safenow = wrappedTrust(f),
                                        !.pc = "exec"]]
    /\ UNCHANGED <<nwin, unsafe_mode, sys_stdout, sys_stderr, stack, nloads>>
    /\ UNCHANGED shellVars
    /\ granted' = (granted \/ ~cmdDeclined(ans))

\* the document once the except clause has run (enableUpdates)
failedDoc(d) == enableUpdates(d)

\* slip: the except clause sets the file name as a completed load does
failedFilename_set(old, f) == f.filename

\* self.filename after the except clause: it returns before the assignment
failedFilename(old, f) == old

\* slip: the undo history is not cleared
loadedDoc_keepsHistory(d) == setModified(enableUpdates(d), FALSE)

\* the document once the script has run: enableUpdates, setModified(False),
\* clearHistory
loadedDoc(d) == clearHistory(setModified(enableUpdates(d), FALSE))

\* cexec raises.  caught: the exception is an Exception, which the except
\* clause handles; otherwise (KeyboardInterrupt, SystemExit, ...) it leaves
\* openFileInWindow
ScriptRaises(w, caught) ==
    /\ Running(w)
    /\ frame[w].pc = "exec"
    /\ LET f == frame[w]
       IN IF caught
          THEN /\ sys_stdout' = f.stdout
               /\ sys_stderr' = f.stderr
               /\ doc' = [doc EXCEPT ![w] = failedDoc(doc[w])]
               /\ hist' = [hists EXCEPT ![w] =
                             [hist[w] EXCEPT !.errors = @ + 1,
                                             !.outcome = "runtimeerror",
                                             !.end_stdout = sys_stdout',
                                             !.end_stderr = sys_stderr']]
               /\ EndLoad(w, f)
          ELSE /\ UNCHANGED <<sys_stdout, sys_stderr, doc>>
               /\ hist' = [hists EXCEPT ![w] =
                             [hist[w] EXCEPT !.outcome = "escaped",
                                             !.end_stdout = sys_stdout',
                                             !.end_stderr = sys_stderr']]
               /\ EndLoad(w, f)
    /\ UNCHANGED <<nwin, unsafe_mode, nloads, granted>>
    /\ filename' = [filename EXCEPT ![w] =
                       IF caught THEN failedFilename(@, frame[w]) ELSE @]
    /\ UNCHANGED <<dirname, dirname_export, setdb, written, close>>

\* self.dirname after "if not setdb['dirname_usecwd']"
loadedDirname(old, f, usecwd) ==
    IF ~usecwd THEN dirnameOf(abspath(f.filename)) ELSE old

\* cexec returns: restore the streams, the document is loaded
Finish(w) ==
    /\ Running(w)
    /\ frame[w].pc = "exec"
    /\ LET f == frame[w]
       IN /\ sys_stdout' = f.stdout
          /\ sys_stderr' = f.stderr
          /\ doc' = [doc EXCEPT ![w] = loadedDoc(doc[w])]
          /\ setdb' = [setdb EXCEPT !.main_recentfiles =
                                      addRecentFile(@, f.filename)]
          /\ filename' = [filename EXCEPT ![w] = f.filename]
          /\ dirname' = [dirname EXCEPT ![w] =
                            loadedDirname(@, f, setdb'.dirname_usecwd)]
          /\ dirname_export' = [dirname_export EXCEPT ![w] = dirname'[w]]
          /\ hist' = [hists EXCEPT ![w] =
                        [hist[w] EXCEPT !.outcome = "ok", !.opened = @ + 1,
                                        !.end_stdout = sys_stdout',
                                        !.end_stderr = sys_stderr']]
          /\ EndLoad(w, f)
    /\ UNCHANGED <<nwin, unsafe_mode, nloads, granted>>
    /\ UNCHANGED closeVars

Next ==
    \/ \E w \in Windows, readOk \in BOOLEAN, scr \in Scripts :
          openFile(w, readOk, scr)
    \/ \E readOk \in BOOLEAN, scr \in Scripts : CreateWindow(readOk, scr)
    \/ \E w \in Windows : Compile(w)
    \/ \E w \in Windows, ans \in {"stop", "continue"} :
          AnswerScriptPrompt(w, ans)
    \/ \E w \in Windows,
          raises \in {"none", "wipe", "suspendUpdates", "AddImportPath"} :
          Setup(w, raises)
    \/ \E w \in Windows, c \in {"safe", "unsafe"} : Invoke(w, c)
    \/ \E w \in Windows, ans \in {"ignore", "continue"} :
          AnswerCmdPrompt(w, ans)
    \/ \E w \in Windows, caught \in BOOLEAN : ScriptRaises(w, caught)
    \/ \E w \in Windows : Finish(w)

Spec == Init /\ [][Next]_vars

TypeOK ==
    /\ nwin \in Windows
    /\ unsafe_mode \in BOOLEAN
    /\ nloads \in 0..MaxLoads
    /\ \A i \in 1..Len(stack) : stack[i] \in 1..nwin
    /\ \A w \in Windows :
          frame[w].pc \in {"idle", "compile", "prompt_script", "setup",
                           "exec", "prompt_cmd"}

\* ---- properties ---------------------------------------------------------------
Last(s) == s[Len(s)]
Violations(w) ==
    {i \in 1..Len(hist[w].compiles) : hist[w].compiles[i].result = "violation"}
UnsafeCalls(w) ==
    {i \in 1..Len(hist[w].trace) : hist[w].trace[i].cmd = "unsafe"}
Prompted(w) ==
    {i \in 1..Len(hist[w].trace) : hist[w].trace[i].prompted}

\* C1: cexec runs only the unit returned by a successful compileChecked call
\* of the same load; if a compileChecked call of the load raised a security
\* violation, then every whole-script prompt was answered "continue" and the
\* unit comes from a later call with ignoresecurity = true.
C1_ExecOnlyCheckedUnit ==
    \A w \in Windows :
       hist[w].executed =>
          LET cs == hist[w].compiles
              u == hist[w].unit
          IN /\ u.n \in 1..Len(cs)
             /\ cs[u.n].result = "ok"
             /\ cs[u.n].ignoresecurity = u.ignoresecurity
             /\ Violations(w) # {} =>
                   /\ Len(hist[w].prompts) = Cardinality(Violations(w))
                   /\ \A j \in 1..Len(hist[w].prompts) :
                         hist[w].prompts[j] = "continue"
                   /\ u.ignoresecurity
                   /\ \A i \in Violations(w) : i < u.n

\* a script ran after a security violation the user accepted
C1_Witness ==
    \E w \in Windows :
       /\ hist[w].executed
       /\ Violations(w) # {}
       /\ hist[w].trace # <<>>

\* C2: a script that the secure policy accepts and that invokes no unsafe
\* command is loaded without the whole-script prompt and without the
\* unsafe-command prompt, whatever unsafe_mode is.
C2_NoPromptForSafeScript ==
    \A w \in Windows :
       (/\ compileChecked(frame[w].script, FALSE) # "violation"
        /\ UnsafeCalls(w) = {})
       => /\ hist[w].prompts = <<>>
          /\ Prompted(w) = {}
          /\ ~InPrompt(w)

\* a load of such a script has run two commands to the end, unsafe mode off
C2_Witness ==
    \E w \in Windows :
       /\ ~unsafe_mode
       /\ hist[w].outcome = "ok"
       /\ compileChecked(frame[w].script, FALSE) = "ok"
       /\ Len(hist[w].trace) >= 2
       /\ UnsafeCalls(w) = {}

\* C3: once an unsafe-command prompt of a load was answered "continue", every
\* later unsafe invocation of that load is performed without a prompt.
C3_AcceptIsSticky ==
    \A w \in Windows :
       \A i, j \in 1..Len(hist[w].trace) :
          (/\ i < j
           /\ hist[w].trace[i].answer = "continue"
           /\ hist[w].trace[j].cmd = "unsafe")
          => /\ ~hist[w].trace[j].prompted
             /\ hist[w].trace[j].performed

\* an accepted prompt was followed by another unsafe invocation
C3_Witness ==
    \E w \in Windows :
       /\ Len(hist[w].trace) >= 2
       /\ hist[w].trace[1].answer = "continue"
       /\ hist[w].trace[2].cmd = "unsafe"

\* the whole-script prompt of the load of w was declined
Declined(w) == hist[w].prompts # <<>> /\ Last(hist[w].prompts) = "stop"

\* the default empty document: what setupDefaultDoc makes of a new document
DefaultDoc == setupDefaultDoc(NewDocument)

\* C4: declining the whole-script prompt ends the load with the document as
\* it was before the load: not wiped, modified flag and undo history as they
\* were, updates not suspended by the load, streams never redirected by it.
C4_DeclineLeavesDocument ==
    \A w \in Windows :
       Declined(w) =>
          /\ frame[w].pc = "idle"
          /\ hist[w].outcome = "declined"
          /\ doc[w] = hist[w].pre
          /\ hist[w].wipes = 0
          /\ hist[w].suspends = 0
          /\ ~hist[w].redirected
          /\ ~hist[w].executed

\* a load into a window that shows the default document was declined
C4_Witness ==
    \E w \in Windows :
       /\ Declined(w)
       /\ hist[w].pre = DefaultDoc
       /\ frame[w].pc = "idle"

\* C5 as stated: after the whole-script prompt is declined the document is
\* in the default empty state, whatever it held before the load.
C5_DeclineResetsDocument ==
    \A w \in Windows : Declined(w) => doc[w] = DefaultDoc

\* C5 as amended: declining the whole-script prompt is an abort that
\* reports no error and does not reset the document; the document is in the
\* default empty state afterwards exactly when it was before the load.
C5_DeclineDoesNotReset ==
    \A w \in Windows :
       Declined(w) =>
          /\ hist[w].errors = 0
          /\ doc[w].content = hist[w].pre.content
          /\ doc[w].changeset = hist[w].pre.changeset
          /\ (doc[w] = DefaultDoc) <=> (hist[w].pre = DefaultDoc)

\* a load into a window built by CreateWindow was declined: its document is
\* still the empty one, without page or graph
C5_Witness ==
    \E w \in Windows :
       /\ Declined(w)
       /\ hist[w].pre = NewDocument
       /\ doc[w] # DefaultDoc

\* the invocations of the load of w that were not declined, in script order
RECURSIVE NotDeclined(_, _)
NotDeclined(t, i) ==
    IF i > Len(t) THEN <<>>
    ELSE IF t[i].answer \in {"ignore", "pending"} THEN NotDeclined(t, i + 1)
    ELSE <<i>> \o NotDeclined(t, i + 1)

\* the step in which the user declines an unsafe-command prompt of w
DeclinesCmd(w) ==
    /\ frame[w].pc = "prompt_cmd"
    /\ hist'[w].trace # <<>>
    /\ Last(hist'[w].trace).answer = "ignore"

C6_DeclineState ==
    \A w \in Windows :
       LET t == hist[w].trace
       IN /\ \A i \in 1..Len(t) : t[i].answer = "ignore" => ~t[i].performed
          /\ hist[w].performed = NotDeclined(t, 1)
          /\ \A i \in 1..Len(t) :
                t[i].cmd = "safe" => t[i].performed /\ ~t[i].prompted
          /\ \A j \in UnsafeCalls(w) :
                (~frame[w].unsafe /\ \A i \in 1..(j - 1) : t[i].answer # "continue")
                => t[j].prompted

C6_DeclineStep ==
    \A w \in Windows :
       DeclinesCmd(w) =>
          /\ frame'[w].pc = "exec"
          /\ ~frame'[w].safenow
          /\ doc' = doc
          /\ hist'[w].performed = hist[w].performed
          /\ stack' = stack

\* C6: declining an unsafe-command prompt skips that invocation only: the
\* command is not called, safenow stays false, the load goes on, and the
\* calls performed are all the other invocations in script order (a later
\* unsafe invocation being prompted again).
C6_DeclineSkipsOneCall == []C6_DeclineState /\ [][C6_DeclineStep]_vars

\* a declined unsafe command was followed by a second unsafe command, which
\* was prompted in its turn and accepted, and the load completed
C6_Witness ==
    \E w \in Windows :
       /\ Len(hist[w].trace) = 2
       /\ hist[w].trace[1].answer = "ignore"
       /\ hist[w].trace[2].prompted
       /\ hist[w].performed = <<2>>
       /\ hist[w].outcome = "ok"

\* the load of w has ended
Ended(w) == frame[w].pc = "idle" /\ hist[w].outcome # "none"

\* C7 as stated: after a load that failed (compile error, declined
\* whole-script prompt, or exception raised while the script ran),
\* sys.stdout and sys.stderr are the objects they were when the load began.
C7_FailedLoadRestoresStreams ==
    \A w \in Windows :
       (/\ Ended(w)
        /\ \/ hist[w].outcome \in {"compileerror", "declined", "runtimeerror"}
           \/ hist[w].outcome = "escaped" /\ hist[w].executed)
       => /\ hist[w].end_stdout = hist[w].pre_stdout
          /\ hist[w].end_stderr = hist[w].pre_stderr

\* C8 as stated: whatever step raises after the streams were redirected, the
\* load does not end with sys.stdout or sys.stderr pointing at the console
\* sink of its window.
C8_NoExitLeavesRedirection ==
    \A w \in Windows :
       (Ended(w) /\ hist[w].redirected)
       => /\ hist[w].end_stdout # con_stdout(w)
          /\ hist[w].end_stderr # con_stderr(w)

\* C9: after a load whose script ran to completion the document is
\* unmodified, has an empty undo history and has its updates enabled, also
\* when unsafe commands were skipped.
C9_LoadedDocumentIsClean ==
    \A w \in Windows :
       (Ended(w) /\ hist[w].outcome = "ok")
       => /\ ~doc[w].modified
          /\ doc[w].history = 0
          /\ ~doc[w].suspended

\* a load completed in which a safe command ran and an unsafe one was skipped
C9_Witness ==
    \E w \in Windows :
       /\ Ended(w)
       /\ hist[w].outcome = "ok"
       /\ \E i \in 1..Len(hist[w].trace) : hist[w].trace[i].answer = "ignore"
       /\ \E i \in 1..Len(hist[w].trace) :
             hist[w].trace[i].cmd = "safe" /\ hist[w].trace[i].performed

\* the first invocation whose prompt was accepted (0: none)
FirstAccepted(w) ==
    LET A == {i \in 1..Len(hist[w].trace) : hist[w].trace[i].answer = "continue"}
    IN IF A = {} THEN 0 ELSE CHOOSE i \in A : \A j \in A : i <= j

\* C10: with unsafe mode off and no compile-time security violation, the
\* prompts shown are as many as the unsafe invocations up to and including
\* the first accepted one (all of them if none is accepted); a prompted call
\* is performed when accepted and skipped when declined.
C10_PromptCount ==
    \A w \in Windows :
       (~unsafe_mode /\ Violations(w) = {})
       => LET fa == FirstAccepted(w)
              t == hist[w].trace
          IN /\ Cardinality(Prompted(w)) =
                   Cardinality({j \in UnsafeCalls(w) : fa = 0 \/ j <= fa})
             /\ \A j \in Prompted(w) :
                   /\ t[j].answer = "continue" => t[j].performed
                   /\ t[j].answer = "ignore" => ~t[j].performed

\* two unsafe invocations: the first accepted, the second then performed
\* unasked; the load completed with one prompt shown
C10_Witness ==
    \E w \in Windows :
       /\ ~unsafe_mode
       /\ Violations(w) = {}
       /\ UnsafeCalls(w) = {1, 2}
       /\ Prompted(w) = {1}
       /\ FirstAccepted(w) = 1
       /\ hist[w].outcome = "ok"

\* the compileChecked calls of the load of w that raised an error which is
\* no security violation
CompileErrors(w) ==
    {i \in 1..Len(hist[w].compiles) : hist[w].compiles[i].result = "error"}

\* C11 as stated: when compileChecked fails with an error that is no
\* security violation the load aborts, the error dialog is shown, and the
\* document is reset to its default state.
C11_CompileErrorResetsDocument ==
    \A w \in Windows :
       CompileErrors(w) # {} =>
          /\ frame[w].pc = "idle"
          /\ hist[w].errors = 1
          /\ doc[w] = DefaultDoc

\* C12: a compile error that is no security violation ends the load at once:
\* it is the last compileChecked call, every prompt shown came before it and
\* was answered, the error dialog is shown once, and cexec is not called;
\* so on the first compile and on the retry after an accepted prompt.
C12_CompileErrorAbortsAtOnce ==
    \A w \in Windows :
       \A i \in CompileErrors(w) :
          /\ i = Len(hist[w].compiles)
          /\ frame[w].pc = "idle"
          /\ hist[w].outcome = "compileerror"
          /\ hist[w].errors = 1
          /\ ~hist[w].executed
          /\ hist[w].trace = <<>>
          /\ Len(hist[w].prompts) = i - 1
          /\ \A j \in 1..Len(hist[w].prompts) : hist[w].prompts[j] = "continue"

\* the retry that followed an accepted whole-script prompt raised the error
C12_Witness ==
    \E w \in Windows :
       /\ Len(hist[w].compiles) = 2
       /\ hist[w].compiles[1].result = "violation"
       /\ hist[w].compiles[2].result = "error"
       /\ hist[w].outcome = "compileerror"

SafePerformed(w) ==
    {i \in 1..Len(hist[w].trace) :
        hist[w].trace[i].cmd = "safe" /\ hist[w].trace[i].performed}

\* C14 as stated: whatever the script raises, the load restores the streams
\* it saved, re-enables the updates of the document and reports the error
\* once; the document keeps what the script did before raising (no rollback,
\* still modified, undo history kept).
C14_RuntimeErrorHandled ==
    \A w \in Windows :
       (/\ Ended(w)
        /\ hist[w].executed
        /\ hist[w].outcome \in {"runtimeerror", "escaped"})
       => /\ hist[w].end_stdout = frame[w].stdout
          /\ hist[w].end_stderr = frame[w].stderr
          /\ ~doc[w].suspended
          /\ hist[w].errors = 1
          /\ doc[w].history =
                hist[w].pre.history + Cardinality(SafePerformed(w))
          /\ SafePerformed(w) # {} => doc[w].modified

\* C15: with unsafe mode enabled every compileChecked call of a load has
\* ignoresecurity = true, no prompt of either kind is shown, and every
\* unsafe invocation is performed.
C15_UnsafeModeNeverPrompts ==
    unsafe_mode =>
       \A w \in Windows :
          /\ \A i \in 1..Len(hist[w].compiles) :
                hist[w].compiles[i].ignoresecurity
          /\ Violations(w) = {}
          /\ hist[w].prompts = <<>>
          /\ Prompted(w) = {}
          /\ frame[w].pc \notin {"prompt_script", "prompt_cmd"}
          /\ \A i \in UnsafeCalls(w) : hist[w].trace[i].performed

\* unsafe mode on: a script with a violation was compiled and executed, and
\* its unsafe invocation was performed unasked
C15_Witness ==
    /\ unsafe_mode
    /\ \E w \in Windows :
          /\ frame[w].script.violation
          /\ hist[w].outcome = "ok"
          /\ UnsafeCalls(w) # {}
          /\ \A i \in UnsafeCalls(w) : hist[w].trace[i].performed

\* C16: once the whole-script prompt is accepted the checks are off for the
\* rest of the load: the next compileChecked call has ignoresecurity = true,
\* and every unsafe invocation is performed with no prompt.
C16_AcceptedScriptIsTrusted ==
    \A w \in Windows :
       (hist[w].prompts # <<>> /\ hist[w].prompts[1] = "continue")
       => /\ frame[w].pc # "prompt_cmd"
          /\ Len(hist[w].compiles) >= 2 =>
                hist[w].compiles[2].ignoresecurity
          /\ hist[w].executed => hist[w].unit.ignoresecurity
          /\ Prompted(w) = {}
          /\ \A i \in UnsafeCalls(w) : hist[w].trace[i].performed

\* unsafe mode off: the whole-script prompt was accepted, the script ran and
\* its two unsafe invocations were performed unasked
C16_Witness ==
    /\ ~unsafe_mode
    /\ \E w \in Windows :
          /\ hist[w].prompts = <<"continue">>
          /\ hist[w].outcome = "ok"
          /\ Cardinality(UnsafeCalls(w)) = 2
          /\ Prompted(w) = {}

\* the load of w is between the start of cexec and its end
Executing(w) == frame[w].pc \in {"exec", "prompt_cmd"}

\* the unsafe-command prompts of the load of w the user accepted
AcceptedCmds(w) ==
    {i \in 1..Len(hist[w].trace) : hist[w].trace[i].answer = "continue"}

\* C17 as stated: while the script runs safenow[0] is true only if unsafe
\* mode is enabled or the user has accepted an unsafe-command prompt of this
\* load.
C17_TrustOnlyFromCommandPrompt ==
    \A w \in Windows :
       (Executing(w) /\ frame[w].safenow)
       => (unsafe_mode \/ AcceptedCmds(w) # {})

C17_TrustState ==
    \A w \in Windows :
       Executing(w) =>
          /\ frame[w].unsafe <=>
                (unsafe_mode \/ (hist[w].prompts # <<>>
                                 /\ Last(hist[w].prompts) = "continue"))
          /\ frame[w].safenow <=> (frame[w].unsafe \/ AcceptedCmds(w) # {})

C17_TrustStep ==
    \A w \in Windows :
       (Executing(w) /\ frame'[w].pc \in {"exec", "prompt_cmd"})
       => /\ frame[w].safenow => frame'[w].safenow
          /\ (~frame[w].safenow /\ frame'[w].safenow)
                => /\ frame[w].pc = "prompt_cmd"
                   /\ Last(hist'[w].trace).answer = "continue"

\* C17: safenow[0] is false when cexec starts unless unsafe mode is enabled
\* or the user accepted the whole-script prompt of this load; it turns from
\* false to true only when the user accepts an unsafe-command prompt, and
\* never from true to false within the load.
C17_TrustFlag == []C17_TrustState /\ [][C17_TrustStep]_vars

\* unsafe mode off and no unsafe-command prompt accepted, yet the flag is
\* true while the script runs: the whole-script prompt was accepted
C17_Witness ==
    /\ ~unsafe_mode
    /\ \E w \in Windows :
          /\ Executing(w)
          /\ frame[w].safenow
          /\ AcceptedCmds(w) = {}
          /\ hist[w].prompts = <<"continue">>

\* C18: no step of a load changes transient_settings['unsafe_mode'].
C18_SettingUnchanged == [][unsafe_mode' = unsafe_mode]_vars

\* a load in which the user accepted the whole-script prompt has ended and
\* unsafe mode is still off
C18_Witness ==
    /\ ~unsafe_mode
    /\ \E w \in Windows :
          /\ Ended(w)
          /\ hist[w].prompts = <<"continue">>
          /\ hist[w].outcome = "ok"

\* the first unsafe invocation of the script of the load of w, 0 if none
FirstUnsafe(w) ==
    IF UnsafeCalls(w) = {} THEN 0
    ELSE CHOOSE i \in UnsafeCalls(w) : \A j \in UnsafeCalls(w) : i <= j

\* C19: with unsafe mode off every load starts untrusted, whatever the user
\* accepted in earlier loads: its first compileChecked call has
\* ignoresecurity = false, a violation it raises is prompted for, and if
\* there is none the first unsafe invocation is prompted for.
C19_TrustEndsWithLoad ==
    ~unsafe_mode =>
       \A w \in Windows :
          /\ hist[w].compiles # <<>> =>
                /\ ~hist[w].compiles[1].ignoresecurity
                /\ frame[w].script.violation /\ frame[w].script.error # "parse"
                      => /\ hist[w].compiles[1].result = "violation"
                         /\ hist[w].prompts # <<>>
          /\ (Violations(w) = {} /\ UnsafeCalls(w) # {})
                => hist[w].trace[FirstUnsafe(w)].prompted

\* a prompt was accepted in a load that has ended; the next load, the only
\* one running, shows the whole-script prompt again
C19_Witness ==
    /\ ~unsafe_mode
    /\ granted
    /\ \E w \in Windows :
          /\ stack = <<w>>
          /\ frame[w].pc = "prompt_script"
          /\ hist[w].prompts = <<"pending">>

\* the steps of openFileInWindow are sequential code and the claim assumes
\* that every prompt is answered: no load stops while a step of it is enabled
FairSpec == Spec /\ WF_vars(Next)

\* the load of w is in its compile-retry loop
Compiling(w) == frame[w].pc \in {"compile", "prompt_script"}

C20_LoopBound ==
    \A w \in Windows :
       /\ Len(hist[w].compiles) <= 2
       /\ Len(hist[w].prompts) <= 1
       /\ Len(hist[w].compiles) = 2 => frame[w].pc # "compile"
       /\ Len(hist[w].compiles) = 2 => frame[w].pc # "prompt_script"

\* C20: compileChecked raising no violation when ignoresecurity = true and
\* every prompt being answered, a load calls compileChecked at most twice,
\* shows the whole-script prompt at most once, and leaves the compile-retry
\* loop.
C20_CompileLoopTerminates ==
    /\ []C20_LoopBound
    /\ \A w \in Windows : Compiling(w) ~> ~Compiling(w)

\* a load left the loop after two compileChecked calls and one prompt
C20_Witness ==
    \E w \in Windows :
       /\ Len(hist[w].compiles) = 2
       /\ hist[w].prompts = <<"continue">>
       /\ hist[w].compiles[2].result = "ok"
       /\ frame[w].pc = "setup"

EndedEarly(w) == hist[w].outcome \in {"readfail", "declined", "compileerror"}

\* C22: a load calls document.wipe and document.suspendUpdates at most once,
\* and only after a compileChecked call of it succeeded; until then, and
\* after a load that ends at the file read, at a declined whole-script
\* prompt or at a compile error, the document is the one the window had
\* before the load (after a read failure: setupDefaultDoc of it).
C22_WipeOnlyAfterCompile ==
    \A w \in Windows :
       /\ hist[w].wipes <= 1
       /\ hist[w].suspends <= hist[w].wipes
       /\ hist[w].wipes = 1 =>
             /\ hist[w].compiles # <<>>
             /\ Last(hist[w].compiles).result = "ok"
       /\ frame[w].pc \in {"compile", "prompt_script", "setup"} =>
             /\ hist[w].wipes = 0
             /\ doc[w] = hist[w].pre
       /\ EndedEarly(w) =>
             /\ hist[w].wipes = 0
             /\ hist[w].suspends = 0
             /\ doc[w] = IF hist[w].outcome = "readfail"
                         THEN setupDefaultDoc(hist[w].pre)
                         ELSE hist[w].pre

\* a load into a window that shows a page and a graph ended at a compile
\* error, and the page and the graph are still there
C22_Witness ==
    \E w \in Windows :
       /\ hist[w].outcome = "compileerror"
       /\ hist[w].pre.content # <<>>
       /\ doc[w].content = hist[w].pre.content

\* the load of w has just ended and it was nested in the load of another
\* window, which is blocked in an unsafe-command prompt with the streams
\* redirected to its console
EndedNested(w) ==
    /\ Ended(w)
    /\ stack # <<>>
    /\ frame[Top].pc = "prompt_cmd"
    /\ hist[w].pre_stdout = con_stdout(Top)

\* C23 as stated: a load nested in the load of another window, which is
\* blocked in an unsafe-command prompt, ends with sys.stdout and sys.stderr
\* the objects it found at its start (the console sinks of the outer
\* window), so the outer load finds its redirection in place and the streams
\* are those of the process once every load has ended.
C23_NestedLoadsRestoreStreams ==
    \A w \in Windows :
       EndedNested(w) =>
          /\ hist[w].end_stdout = hist[w].pre_stdout
          /\ hist[w].end_stderr = hist[w].pre_stderr
          /\ sys_stdout = con_stdout(Top)
          /\ sys_stderr = con_stderr(Top)

\* what a load sets when it has loaded the document
Attributes == <<filename, dirname, dirname_export, setdb.main_recentfiles>>

\* this step is the one in which the script of the load of w returns
Completes(w) ==
    /\ frame[w].pc = "exec"
    /\ hist[w].outcome = "none"
    /\ hist'[w].outcome = "ok"

C24_AttributesState ==
    \A w \in Windows :
       /\ hist[w].outcome = "ok" =>
             /\ filename[w] = frame[w].filename
             /\ dirname[w] = dirnameOf(abspath(frame[w].filename))
             /\ dirname_export[w] = dirname[w]
             /\ setdb.main_recentfiles # <<>>
             /\ setdb.main_recentfiles[1] = abspath(frame[w].filename)
             /\ hist[w].opened = 1
       /\ hist[w].outcome # "ok" => hist[w].opened = 0
       /\ (frame[w].pc # "idle" \/ hist[w].outcome \notin {"none", "ok"}) =>
             filename[w] = hist[w].pre_filename

C24_AttributesStep ==
    /\ Attributes' # Attributes =>
          \E w \in Windows :
             /\ Completes(w)
             /\ \A v \in Windows \ {w} :
                   /\ filename'[v] = filename[v]
                   /\ dirname'[v] = dirname[v]
                   /\ dirname_export'[v] = dirname_export[v]
    /\ \A w \in Windows :
          hist'[w].opened > hist[w].opened => Completes(w)

\* C24: the file name of a window, its working directories and the list of
\* recent files change, and 'documentopened' is emitted, only in the step in
\* which the script of a load of that window returns; a load that ends in
\* any other way leaves the file name of its window and the list as they
\* were.
C24_OnlyLoadedSetsAttributes ==
    []C24_AttributesState /\ [][C24_AttributesStep]_vars

\* a window that shows a loaded file: a second load into it failed while its
\* script ran, and the file name and the recent files are those of the first
C24_Witness ==
    \E w \in Windows :
       /\ hist[w].outcome = "runtimeerror"
       /\ filename[w] # NoFileName
       /\ filename[w] = hist[w].pre_filename
       /\ filename[w] # frame[w].filename
       /\ setdb.main_recentfiles = <<abspath(filename[w])>>
       /\ setdb.main_recentfiles = hist[w].pre_recent

\* in this step openFileInWindow is entered on window t
LoadStarts(t) ==
    /\ nloads' = nloads + 1
    /\ hist'[t].pre = doc[t]
    /\ \/ stack' = Append(stack, t)
       \/ stack' = stack /\ hist'[t].outcome = "readfail"

\* the inputs a step that enters a load can have had: the file was read if
\* and only if an activation was pushed, and then the script is the one the
\* new activation holds
StartedRead == stack' # stack

StartedScripts ==
    IF StartedRead THEN {frame'[stack'[Len(stack')]].script} ELSE Scripts

C25_OpenFileStep ==
    nloads' # nloads =>
    \A w \in 1..nwin, scr \in StartedScripts :
       openFile(w, StartedRead, scr) =>
          IF isBlank(doc[w])
          THEN /\ nwin' = nwin
               /\ LoadStarts(w)
          ELSE /\ nwin' = nwin + 1
               /\ doc[nwin'] = NewDocument
               /\ LoadStarts(nwin')
               /\ doc'[w] = doc[w]
               /\ filename'[w] = filename[w]
               /\ frame'[w].pc = "idle"
               /\ ~InStack(w) /\ stack' # Append(stack, w)

\* C25: openFile enters openFileInWindow on the current window if and only
\* if its document is blank; otherwise a new window is created, the load is
\* entered there, and the document and the file name of the current window
\* stay as they are.
C25_OpenFileTarget == [][C25_OpenFileStep]_vars

\* the document of window 1 is not blank and the file was sent to a new
\* window, window 2, whose load is in progress; window 1 shows what it showed
C25_Witness ==
    /\ nwin = 2
    /\ ~isBlank(doc[1])
    /\ filename[1] # NoFileName
    /\ frame[1].pc = "idle"
    /\ stack = <<2>>
    /\ hist[2].pre = NewDocument

\* ---- the list of recent files ---------------------------------------------
\* The list is changed by addRecentFile only, which a load calls when it has
\* loaded its document.  RecentSpec keeps of a load nothing but that call,
\* made with any file name, and starts from the lists of some earlier
\* session: the first n of RecentLimit files, n = 0 .. RecentLimit.
BaseRecent == [i \in 1..RecentLimit |-> [dir |-> Cwd, base |-> i]]

RecentInit ==
    /\ LoadInit
    /\ ~unsafe_mode
    /\ \E n \in 0..RecentLimit :
          ShellInit([InitialSetdb EXCEPT
                        !.main_recentfiles = SubSeq(BaseRecent, 1, n)])

\* a load of file name f has loaded its document: self.addRecentFile(filename)
AddRecent(f) ==
    /\ nloads < MaxLoads
    /\ nloads' = nloads + 1
    /\ setdb' = [setdb EXCEPT !.main_recentfiles = addRecentFile(@, f)]
    /\ UNCHANGED <<nwin, doc, unsafe_mode, sys_stdout, sys_stderr, stack,
                   frame, hist, granted, filename, dirname, dirname_export,
                   written, close>>

RecentNext == \E f \in FileNames : AddRecent(f)

RecentSpec == RecentInit /\ [][RecentNext]_vars

\* the place of x in the list s
Pos(s, x) == CHOOSE i \in 1..Len(s) : s[i] = x

C26_RecentState ==
    LET r == setdb.main_recentfiles
    IN /\ Len(r) <= RecentLimit
       /\ \A i, j \in 1..Len(r) : i # j => r[i] # r[j]
       /\ \A i \in 1..Len(r) : r[i] = abspath(r[i])

C26_RecentStep ==
    LET old == setdb.main_recentfiles
        new == setdb'.main_recentfiles
    IN \A f \in FileNames :
          AddRecent(f) =>
             /\ new # <<>>
             /\ new[1] = abspath(f)
             /\ Len(new) = Min(Cardinality(Range(old) \ {abspath(f)}) + 1,
                               RecentLimit)
             /\ \A i \in 2..Len(new) : new[i] \in Range(old)
             /\ \A i, j \in 2..Len(new) :
                   i < j => Pos(old, new[i]) < Pos(old, new[j])
             /\ \A x \in Range(old) \ Range(new) :
                   \A i \in 2..Len(new) : Pos(old, new[i]) < Pos(old, x)

\* C26: the list of recent files, duplicate-free at the start, stays
\* duplicate-free and no longer than 10 entries; a call of addRecentFile
\* puts the (absolute) name of the file first and keeps the other files in
\* the order they had, dropping only the last ones when the list is cut.
C26_RecentFilesList == []C26_RecentState /\ [][C26_RecentStep]_vars

\* from a full list: a file of the list was added again and moved to the
\* front, then a new file was added and the last entry dropped
C26_Witness ==
    LET r == setdb.main_recentfiles
    IN /\ Len(r) = RecentLimit
       /\ r[1].base = RecentLimit + 1
       /\ r[2] = BaseRecent[5]
       /\ r[3] = BaseRecent[1]
       /\ BaseRecent[RecentLimit] \notin Range(r)

\* ---- closeEvent ---------------------------------------------------------------
\* CloseSpec: the windows are open, no load is in progress, and each window
\* shows a document that was or was not modified since it was saved; the
\* windows are closed one after another.
ClosingDocs == {DefaultDoc, applyCommand(DefaultDoc)}
SaveAsNames == {NoFileName, [dir |-> Cwd, base |-> 1]}

CloseInit ==
    /\ nwin = NumWindows
    /\ doc \in [Windows -> ClosingDocs]
    /\ unsafe_mode = FALSE
    /\ sys_stdout = ProcStdout
    /\ sys_stderr = ProcStderr
    /\ stack = <<>>
    /\ frame = [w \in Windows |-> IdleFrame]
    /\ hist = [w \in Windows |-> NoHist]
    /\ nloads = 0
    /\ granted = FALSE
    /\ filename \in [Windows -> {NoFileName, [dir |-> Home, base |-> 2]}]
    /\ dirname = [w \in Windows |-> InitialSetdb.dirname]
    /\ dirname_export = [w \in Windows |-> InitialSetdb.dirname_export]
    /\ setdb = InitialSetdb
    /\ written = InitialSetdb
    /\ close = [w \in Windows |-> NotClosing]

\* document.saveToFile: the document is written and counts as unmodified
saveToFile(d) == setModified(d, FALSE)

\* slotFileSave on a window with file name fn, working directory dn and
\* document d.  With no file name slotFileSaveAs asks for one (chosen;
\* NoFileName: the dialog was rejected), records the directory of the dialog
\* and calls slotFileSave again.  ok: the file could be written
slotFileSave(fn, dn, d, chosen, ok) ==
    LET picked == fn = NoFileName /\ chosen # NoFileName
        name == IF picked THEN chosen ELSE fn
    IN [filename |-> name,
        dirname |-> IF picked THEN dirnameOf(chosen) ELSE dn,
        doc |-> IF name # NoFileName /\ ok THEN saveToFile(d) ELSE d]

\* setdb['dirname'] = ..., setdb['geometry_mainwindowstate'] = data
storeSettings(db, dn, dne, g, st) ==
    [db EXCEPT !.dirname = dn, !.dirname_export = dne,
               !.geometry_mainwindow = g, !.geometry_mainwindowstate = st]

\* "if self.document.isModified()"
asksToSave(d) == d.modified

\* slip: Cancel is taken for Discard
queryCancels_never(v) == FALSE

\* "if v == qt4.QMessageBox.Cancel"
queryCancels(v) == v = "Cancel"

\* "elif v == qt4.QMessageBox.Yes"
querySaves(v) == v = "Yes"

\* closeEvent is delivered to window w, whose geometry is g and whose dock
\* state is st: ask whether to save if the document is modified, otherwise
\* store and write the settings and accept
closeEvent(w, g, st) ==
    /\ w <= nwin
    /\ close[w].pc = "idle"
    /\ \A v \in Windows : close[v].pc # "query"
    /\ LET c == [NotClosing EXCEPT !.pre_doc = doc[w], !.pre_setdb = setdb,
                                   !.pre_written = written]
       IN IF asksToSave(doc[w])
          THEN /\ close' = [close EXCEPT ![w] =
                              [c EXCEPT !.pc = "query",
                                        !.log = <<"queryOverwrite">>]]
               /\ UNCHANGED <<setdb, written>>
          ELSE /\ setdb' = storeSettings(setdb, dirname[w],
                                         dirname_export[w], g, st)
               /\ written' = setdb'
               /\ close' = [close EXCEPT ![w] =
                              [c EXCEPT !.pc = "closed",
                                        !.event = "accepted",
                                        !.log = <<"store", "writeSettings",
                                                  "accept">>,
                                        !.end_setdb = setdb',
                                        !.end_written = written']]
    /\ UNCHANGED <<nwin, doc, filename, dirname, dirname_export>>
    /\ UNCHANGED loadVars

\* the user answers queryOverwrite with v: Cancel, Yes (Save) or No
\* (Discard); chosen and ok are what slotFileSave meets
answerQuery(w, v, chosen, ok, g, st) ==
    /\ close[w].pc = "query"
    /\ LET c == [close[w] EXCEPT !.answer = v]
       IN IF queryCancels(v)
          THEN /\ close' = [close EXCEPT ![w] =
                              [c EXCEPT !.pc = "idle",
                                        !.event = "ignored",
                                        !.log = Append(@, "ignore"),
                                        !.end_setdb = setdb,
                                        !.end_written = written]]
               /\ UNCHANGED <<doc, filename, dirname, setdb, written>>
          ELSE LET sv == IF querySaves(v)
                         THEN slotFileSave(filename[w], dirname[w], doc[w],
                                           chosen, ok)
                         ELSE [filename |-> filename[w],
                               dirname |-> dirname[w], doc |-> doc[w]]
               IN /\ doc' = [doc EXCEPT ![w] = sv.doc]
                  /\ filename' = [filename EXCEPT ![w] = sv.filename]
                  /\ dirname' = [dirname EXCEPT ![w] = sv.dirname]
                  /\ setdb' = storeSettings(setdb, sv.dirname,
                                            dirname_export[w], g, st)
                  /\ written' = setdb'
                  /\ close' = [close EXCEPT ![w] =
                                 [c EXCEPT !.pc = "closed",
                                           !.event = "accepted",
                                           !.log = @ \o
                                              (IF querySaves(v)
                                               THEN <<"slotFileSave">>
                                               ELSE <<>>) \o
                                              <<"store", "writeSettings",
                                                "accept">>,
                                           !.end_setdb = setdb',
                                           !.end_written = written']]
    /\ UNCHANGED <<nwin, dirname_export>>
    /\ UNCHANGED loadVars

CloseNext ==
    \/ \E w \in Windows, g \in Geometries, st \in DockStates :
          closeEvent(w, g, st)
    \/ \E w \in Windows, v \in {"Cancel", "Yes", "No"},
          chosen \in SaveAsNames, ok \in BOOLEAN,
          g \in Geometries, st \in DockStates :
          answerQuery(w, v, chosen, ok, g, st)

CloseSpec == CloseInit /\ [][CloseNext]_vars

\* C27: closeEvent of a window with an unmodified document stores and
\* writes the settings and accepts, asking nothing; with a modified document
\* it asks first: on Cancel the event is ignored and the settings and the
\* settings file are what they were, on Discard the settings are stored and
\* the event accepted with no call of slotFileSave, on Save slotFileSave is
\* called before the settings are stored and the event accepted.
C27_CloseEvent ==
    \A w \in Windows :
       LET c == close[w]
           stored == <<"store", "writeSettings", "accept">>
       IN /\ c.pc = "query" =>
                /\ c.pre_doc.modified
                /\ c.event = "none"
                /\ c.log = <<"queryOverwrite">>
                /\ setdb = c.pre_setdb /\ written = c.pre_written
          /\ (c.event # "none" /\ ~c.pre_doc.modified) =>
                /\ c.event = "accepted"
                /\ c.answer = "none"
                /\ c.log = stored
          /\ (c.event # "none" /\ c.pre_doc.modified) =>
                c.answer \in {"Cancel", "Yes", "No"}
          /\ c.answer = "Cancel" =>
                /\ c.event = "ignored"
                /\ c.log = <<"queryOverwrite", "ignore">>
                /\ c.end_setdb = c.pre_setdb
                /\ c.end_written = c.pre_written
                /\ doc[w] = c.pre_doc
          /\ c.answer = "No" =>
                /\ c.event = "accepted"
                /\ c.log = <<"queryOverwrite">> \o stored
                /\ doc[w] = c.pre_doc
          /\ c.answer = "Yes" =>
                /\ c.event = "accepted"
                /\ c.log = <<"queryOverwrite", "slotFileSave">> \o stored
          /\ c.event = "accepted" =>
                /\ c.pc = "closed"
                /\ c.end_setdb.dirname = dirname[w]
                /\ c.end_setdb.dirname_export = dirname_export[w]
                /\ c.end_setdb.geometry_mainwindow \in Geometries
                /\ c.end_written = c.end_setdb

\* the user cancelled the close of window 1 and saved on the close of
\* window 2, which then stored and wrote the settings
C27_Witness ==
    /\ close[1].answer = "Cancel"
    /\ close[1].event = "ignored"
    /\ doc[1].modified
    /\ close[2].answer = "Yes"
    /\ close[2].event = "accepted"
    /\ ~doc[2].modified
    /\ written = close[2].end_setdb
    /\ written # InitialSetdb

====
